---- MODULE Spec2Model ----
(***************************************************************************)
(* Model of src/models/server.py: the rule-based code-diff classifier      *)
(* (class CodeAnalyzer) and the two Flask handlers that call it            *)
(* (analyze_code, analyze_batch).                                          *)
(*                                                                         *)
(* Text is modelled as TLA+ strings over ASCII; the character at position  *)
(* i of s is SubSeq(s, i, i).  The regular expressions of the rule tables  *)
(* are kept as the pattern strings of the source and interpreted by a      *)
(* backtracking matcher with the semantics of Python's re module for the   *)
(* syntax the tables use.                                                  *)
(***************************************************************************)
EXTENDS Integers, Sequences, FiniteSets, TLC

(***************************************************************************)
(* Characters and the str methods the analyzer calls                       *)
(***************************************************************************)
ch(s, i) == SubSeq(s, i, i)

UpperChars == <<"A","B","C","D","E","F","G","H","I","J","K","L","M",
                "N","O","P","Q","R","S","T","U","V","W","X","Y","Z">>
LowerChars == <<"a","b","c","d","e","f","g","h","i","j","k","l","m",
                "n","o","p","q","r","s","t","u","v","w","x","y","z">>
DigitChars == <<"0","1","2","3","4","5","6","7","8","9">>

UpperSet == {UpperChars[k] : k \in 1..26}
LowerSet == {LowerChars[k] : k \in 1..26}
DigitSet == {DigitChars[k] : k \in 1..10}
WordSet  == UpperSet \cup LowerSet \cup DigitSet \cup {"_"}
\* \s of re and the characters str.strip() removes, restricted to ASCII
SpaceSet == {" ", "\t", "\n", "\r", "\f"}

ToLower == [c \in UpperSet |-> LowerChars[CHOOSE k \in 1..26 : UpperChars[k] = c]]
ToUpper == [c \in LowerSet |-> UpperChars[CHOOSE k \in 1..26 : LowerChars[k] = c]]

IsUpper(c) == c \in UpperSet
IsLower(c) == c \in LowerSet
IsAlpha(c) == IsUpper(c) \/ IsLower(c)
\* \w of re (str patterns), restricted to ASCII
IsWord(c)  == c \in WordSet
IsSpace(c) == c \in SpaceSet

lower_char(c) == IF IsUpper(c) THEN ToLower[c] ELSE c
upper_char(c) == IF IsLower(c) THEN ToUpper[c] ELSE c

\* "".join(u[lo..hi]) for a sequence u of strings
RECURSIVE chars_join(_, _, _)
chars_join(u, lo, hi) ==
  IF lo > hi THEN ""
  ELSE IF lo = hi THEN u[lo]
  ELSE LET mid == (lo + hi) \div 2
       IN chars_join(u, lo, mid) \o chars_join(u, mid + 1, hi)

\* str.lower()
str_lower(s) ==
  chars_join([i \in 1..Len(s) |-> lower_char(ch(s, i))], 1, Len(s))

\* str.title(): a cased character is upper-cased when the character before
\* it is not cased, and lower-cased otherwise
title_char(s, i) ==
  LET c == ch(s, i)
  IN IF ~IsAlpha(c) THEN c
     ELSE IF i > 1 /\ IsAlpha(ch(s, i - 1)) THEN lower_char(c)
     ELSE upper_char(c)
str_title(s) ==
  chars_join([i \in 1..Len(s) |-> title_char(s, i)], 1, Len(s))

\* str.replace(old, new) for a one-character old
str_replace(s, old, new) ==
  chars_join([i \in 1..Len(s) |-> IF ch(s, i) = old THEN new ELSE ch(s, i)],
             1, Len(s))

\* str(n) of an int, as an f-string renders it
RECURSIVE nat_str(_)
nat_str(n) ==
  IF n < 10 THEN DigitChars[n + 1] ELSE nat_str(n \div 10) \o DigitChars[(n % 10) + 1]
int_str(n) == IF n < 0 THEN "-" \o nat_str(0 - n) ELSE nat_str(n)

\* str.strip(): the first and last positions of s that are not whitespace
RECURSIVE first_non_space(_, _)
first_non_space(s, i) ==
  IF i > Len(s) \/ ~IsSpace(ch(s, i)) THEN i ELSE first_non_space(s, i + 1)
RECURSIVE last_non_space(_, _)
last_non_space(s, i) ==
  IF i < 1 \/ ~IsSpace(ch(s, i)) THEN i ELSE last_non_space(s, i - 1)
str_strip(s) == SubSeq(s, first_non_space(s, 1), last_non_space(s, Len(s)))

\* str.startswith(prefix)
str_startswith(s, prefix) ==
  Len(prefix) <= Len(s) /\ SubSeq(s, 1, Len(prefix)) = prefix

\* str.split('\n'), for the characters lo..hi of s
\* the pieces of two adjacent ranges: the last piece of the left range and
\* the first piece of the right range are one piece
split_merge(left, right) ==
  SubSeq(left, 1, Len(left) - 1)
  \o <<left[Len(left)] \o right[1]>>
  \o SubSeq(right, 2, Len(right))
RECURSIVE split_range(_, _, _)
split_range(s, lo, hi) ==
  IF lo > hi THEN <<"">>
  ELSE IF lo = hi THEN (IF ch(s, lo) = "\n" THEN <<"", "">> ELSE <<ch(s, lo)>>)
  ELSE split_merge(split_range(s, lo, (lo + hi) \div 2),
                   split_range(s, ((lo + hi) \div 2) + 1, hi))
str_split_lines(s) == split_range(s, 1, Len(s))

\* keyword in s
RECURSIVE contains_from(_, _, _)
contains_from(s, sub, i) ==
  IF i + Len(sub) - 1 > Len(s) THEN FALSE
  ELSE IF SubSeq(s, i, i + Len(sub) - 1) = sub THEN TRUE
  ELSE contains_from(s, sub, i + 1)
str_contains(s, sub) == contains_from(s, sub, 1)

\* sep.join(items)
RECURSIVE str_join(_, _)
str_join(sep, items) ==
  IF Len(items) = 0 THEN ""
  ELSE IF Len(items) = 1 THEN items[1]
  ELSE items[1] \o sep \o str_join(sep, Tail(items))

(***************************************************************************)
(* The rule tables of CodeAnalyzer.__init__.  A dict is a sequence of      *)
(* records in insertion order: iteration order decides ties.               *)
(***************************************************************************)
\* self.language_patterns, in the order of the dict
LANGUAGE_PATTERNS == <<
  [name |-> "python", patterns |->
     <<"\\.py$", "import\\s+\\w+", "def\\s+\\w+", "class\\s+\\w+",
       "if\\s+__name__\\s*==\\s*[\"\\']__main__[\"\\']">>],
  [name |-> "java", patterns |->
     <<"\\.java$", "public\\s+class", "import\\s+[\\w.]+;",
       "public\\s+static\\s+void\\s+main", "@\\w+">>],
  [name |-> "javascript", patterns |->
     <<"\\.js$", "function\\s+\\w+", "const\\s+\\w+", "let\\s+\\w+",
       "var\\s+\\w+", "=>">>],
  [name |-> "typescript", patterns |->
     <<"\\.ts$", "interface\\s+\\w+", "type\\s+\\w+", ":\\s*\\w+",
       "export\\s+">>],
  [name |-> "c++", patterns |->
     <<"\\.(cpp|cc|cxx)$", "#include\\s*<", "using\\s+namespace", "std::",
       "int\\s+main">>],
  [name |-> "c", patterns |->
     <<"\\.c$", "#include\\s*<", "int\\s+main", "printf\\s*\\(",
       "malloc\\s*\\(">>],
  [name |-> "html", patterns |->
     <<"\\.html?$", "<html>", "<div", "<span", "<!DOCTYPE">>],
  [name |-> "css", patterns |->
     <<"\\.css$", "\\{[^}]*\\}", "@media", "#\\w+", "\\.\\w+">>],
  [name |-> "sql", patterns |->
     <<"\\.sql$", "SELECT\\s+", "INSERT\\s+", "UPDATE\\s+", "DELETE\\s+",
       "CREATE\\s+TABLE">>],
  [name |-> "shell", patterns |->
     <<"\\.sh$", "#!/bin/bash", "#!/bin/sh", "echo\\s+", "grep\\s+">>],
  [name |-> "go", patterns |->
     <<"\\.go$", "package\\s+\\w+", "import\\s+\\(", "func\\s+\\w+",
       "go\\s+\\w+">>],
  [name |-> "rust", patterns |->
     <<"\\.rs$", "fn\\s+\\w+", "let\\s+\\w+", "struct\\s+\\w+",
       "impl\\s+">>],
  [name |-> "php", patterns |->
     <<"\\.php$", "<\\?php", "\\$\\w+", "function\\s+\\w+",
       "class\\s+\\w+">>],
  [name |-> "ruby", patterns |->
     <<"\\.rb$", "def\\s+\\w+", "class\\s+\\w+", "require\\s+",
       "puts\\s+">>],
  [name |-> "swift", patterns |->
     <<"\\.swift$", "func\\s+\\w+", "var\\s+\\w+", "let\\s+\\w+",
       "class\\s+\\w+">>],
  [name |-> "kotlin", patterns |->
     <<"\\.kt$", "fun\\s+\\w+", "val\\s+\\w+", "var\\s+\\w+",
       "class\\s+\\w+">>]
>>

\* self.code_patterns, in the order of the dict
CODE_PATTERNS == <<
  [name |-> "api_endpoint", patterns |->
     <<"@app\\.route", "@RequestMapping", "app\\.(get|post|put|delete)",
       "router\\.(get|post|put|delete)">>],
  [name |-> "database_query", patterns |->
     <<"SELECT\\s+.*FROM", "INSERT\\s+INTO", "UPDATE\\s+.*SET",
       "DELETE\\s+FROM", "\\.find\\(", "\\.save\\(">>],
  [name |-> "test_code", patterns |->
     <<"def\\s+test_", "@Test", "it\\(.*should", "describe\\(", "assert",
       "expect\\(">>],
  [name |-> "configuration", patterns |->
     <<"\\.properties$", "\\.yaml$", "\\.yml$", "\\.json$", "\\.xml$",
       "config">>],
  [name |-> "authentication", patterns |->
     <<"login", "password", "token", "auth", "jwt", "oauth">>],
  [name |-> "error_handling", patterns |->
     <<"try\\s*:", "catch\\s*\\(", "except\\s*:", "throw\\s+",
       "raise\\s+">>],
  [name |-> "logging", patterns |->
     <<"console\\.log", "print\\(", "logger\\.", "log\\.", "System\\.out">>],
  [name |-> "async_code", patterns |->
     <<"async\\s+def", "await\\s+", "Promise\\s*<", "CompletableFuture">>],
  [name |-> "ui_component", patterns |->
     <<"<div", "<span", "<button", "class\\s*=", "id\\s*=",
       "render\\s*\\(">>],
  [name |-> "data_processing", patterns |->
     <<"map\\s*\\(", "filter\\s*\\(", "reduce\\s*\\(", "for\\s+.*in\\s+",
       "\\.stream\\(\\)">>],
  [name |-> "security", patterns |->
     <<"encrypt", "decrypt", "hash", "ssl", "https", "certificate">>],
  [name |-> "performance", patterns |->
     <<"cache", "optimize", "performance", "benchmark", "profile">>],
  [name |-> "refactoring", patterns |->
     <<"TODO", "FIXME", "deprecated", "@Deprecated", "# TODO">>]
>>

\* self.complexity_indicators, in the order of the dict
COMPLEXITY_INDICATORS == <<
  [name |-> "high", patterns |->
     <<"for\\s+.*for\\s+", "while\\s+.*while\\s+",
       "if\\s+.*if\\s+.*if\\s+", "try\\s+.*except\\s+.*except\\s+",
       "switch\\s+.*case\\s+.*case\\s+.*case\\s+">>],
  [name |-> "medium", patterns |->
     <<"for\\s+.*in\\s+", "while\\s+", "if\\s+.*else\\s+",
       "try\\s+.*except\\s+", "switch\\s+.*case\\s+",
       "class\\s+.*extends\\s+">>],
  [name |-> "low", patterns |->
     <<"def\\s+\\w+", "function\\s+\\w+", "var\\s+\\w+", "let\\s+\\w+",
       "const\\s+\\w+">>]
>>

\* functionality_keywords of analyze_functionality, in the order of the dict
functionality_keywords == <<
  [name |-> "authentication", keywords |->
     <<"login", "password", "auth", "token", "session", "jwt">>],
  [name |-> "database", keywords |->
     <<"query", "select", "insert", "update", "delete", "database", "sql">>],
  [name |-> "api", keywords |->
     <<"endpoint", "route", "request", "response", "api", "rest">>],
  [name |-> "ui", keywords |->
     <<"component", "render", "view", "template", "html", "css">>],
  [name |-> "testing", keywords |->
     <<"test", "assert", "expect", "mock", "unittest">>],
  [name |-> "configuration", keywords |->
     <<"config", "settings", "properties", "environment">>],
  [name |-> "data_processing", keywords |->
     <<"process", "transform", "parse", "convert", "filter">>],
  [name |-> "utility", keywords |->
     <<"helper", "util", "common", "shared", "library">>],
  [name |-> "business_logic", keywords |->
     <<"calculate", "validate", "process", "handle", "manage">>],
  [name |-> "integration", keywords |->
     <<"connect", "integrate", "sync", "import", "export">>]
>>

(***************************************************************************)
(* Regular expressions: re.compile, re.search, re.findall                  *)
(*                                                                         *)
(* A compiled pattern is a tree of tuples:                                 *)
(*   <<"chr", c>>              the character c                             *)
(*   <<"set", neg, cs, w, s>>  [...] / [^...], \w and \s                   *)
(*   <<"any">>                 .  (every character but the newline)        *)
(*   <<"eol">>                 $                                           *)
(*   <<"wb">>                  \b                                          *)
(*   <<"cat", nodes>>          a sequence                                  *)
(*   <<"alt", nodes>>          a|b|...                                     *)
(*   <<"rep", node, min, max>> greedy *, +, ?   (max = -1: unbounded)      *)
(* The syntax covered is the syntax the rule tables use: escapes, one-     *)
(* character classes, groups, alternation, greedy quantifiers, . $ \b.     *)
(* Under re.IGNORECASE (ic) the pattern's characters and the text are      *)
(* case-folded, which for ASCII is what the flag does.                     *)
(***************************************************************************)
RECURSIVE parse_alt(_, _, _)
RECURSIVE parse_alt_rest(_, _, _, _)
RECURSIVE parse_cat(_, _, _, _)
RECURSIVE parse_set(_, _, _, _)

fold(c, ic) == IF ic THEN lower_char(c) ELSE c

parse_escape(c, ic) ==
  CASE c = "s" -> <<"set", FALSE, {}, FALSE, TRUE>>
    [] c = "w" -> <<"set", FALSE, {}, TRUE, FALSE>>
    [] c = "b" -> <<"wb">>
    [] OTHER   -> <<"chr", fold(c, ic)>>

\* the items of a class, from position i to the closing bracket
parse_set(p, i, acc, ic) ==
  LET c == ch(p, i)
  IN IF c = "]" THEN [node |-> acc, next |-> i + 1]
     ELSE IF c = "\\"
          THEN LET e == ch(p, i + 1)
               IN parse_set(p, i + 2,
                    CASE e = "w" -> <<"set", acc[2], acc[3], TRUE, acc[5]>>
                      [] e = "s" -> <<"set", acc[2], acc[3], acc[4], TRUE>>
                      [] OTHER   -> <<"set", acc[2], acc[3] \cup {fold(e, ic)},
                                      acc[4], acc[5]>>,
                    ic)
          ELSE parse_set(p, i + 1,
                 <<"set", acc[2], acc[3] \cup {fold(c, ic)}, acc[4], acc[5]>>, ic)

\* a group: the closing parenthesis follows its alternation
close_group(g) == [node |-> g.node, next |-> g.next + 1]

parse_atom(p, i, ic) ==
  LET c == ch(p, i)
  IN CASE c = "\\" -> [node |-> parse_escape(ch(p, i + 1), ic), next |-> i + 2]
       [] c = "["  -> IF ch(p, i + 1) = "^"
                      THEN parse_set(p, i + 2, <<"set", TRUE, {}, FALSE, FALSE>>, ic)
                      ELSE parse_set(p, i + 1, <<"set", FALSE, {}, FALSE, FALSE>>, ic)
       [] c = "("  -> close_group(parse_alt(p, i + 1, ic))
       [] c = "."  -> [node |-> <<"any">>, next |-> i + 1]
       [] c = "$"  -> [node |-> <<"eol">>, next |-> i + 1]
       [] OTHER    -> [node |-> <<"chr", fold(c, ic)>>, next |-> i + 1]

\* the atom a with the quantifier q that follows it, if one does
quantify(a, q) ==
  CASE q = "+" -> [node |-> <<"rep", a.node, 1, -1>>, next |-> a.next + 1]
    [] q = "*" -> [node |-> <<"rep", a.node, 0, -1>>, next |-> a.next + 1]
    [] q = "?" -> [node |-> <<"rep", a.node, 0, 1>>, next |-> a.next + 1]
    [] OTHER   -> a
quantifier_after(p, a) == IF a.next <= Len(p) THEN ch(p, a.next) ELSE ""
quantified(p, a) == quantify(a, quantifier_after(p, a))
parse_quantified(p, i, ic) == quantified(p, parse_atom(p, i, ic))

\* the items of a concatenation, to the next | or ) or the end
cat_append(p, a, acc, ic) == parse_cat(p, a.next, Append(acc, a.node), ic)
parse_cat(p, i, acc, ic) ==
  IF i > Len(p) \/ ch(p, i) \in {"|", ")"}
  THEN [node |-> <<"cat", acc>>, next |-> i]
  ELSE cat_append(p, parse_quantified(p, i, ic), acc, ic)

\* the branches of an alternation
alt_append(p, b, acc, ic) == parse_alt_rest(p, b.next, Append(acc, b.node), ic)
parse_alt_rest(p, i, acc, ic) ==
  IF i <= Len(p) /\ ch(p, i) = "|"
  THEN alt_append(p, parse_cat(p, i + 1, <<>>, ic), acc, ic)
  ELSE [node |-> IF Len(acc) = 1 THEN acc[1] ELSE <<"alt", acc>>, next |-> i]

parse_alt(p, i, ic) == alt_append(p, parse_cat(p, i, <<>>, ic), <<>>, ic)

re_parse(p, ic) == parse_alt(p, 1, ic).node

\* re keeps the patterns it has compiled: the patterns of the rule tables
\* (all used with IGNORECASE) and the keyword patterns (used without)
patterns_of(table) ==
  UNION {{table[k].patterns[j] : j \in 1..Len(table[k].patterns)} :
           k \in 1..Len(table)}
keyword_pattern(keyword) == "\\b" \o keyword \o "\\b"
re_cache_ic ==
  [p \in patterns_of(LANGUAGE_PATTERNS) \cup patterns_of(CODE_PATTERNS)
         \cup patterns_of(COMPLEXITY_INDICATORS) |-> re_parse(p, TRUE)]
re_cache_plain ==
  [p \in UNION {{keyword_pattern(functionality_keywords[k].keywords[j]) :
                   j \in 1..Len(functionality_keywords[k].keywords)} :
                  k \in 1..Len(functionality_keywords)} |-> re_parse(p, FALSE)]

re_compile(p, ic) ==
  IF ic /\ p \in DOMAIN re_cache_ic THEN re_cache_ic[p]
  ELSE IF ~ic /\ p \in DOMAIN re_cache_plain THEN re_cache_plain[p]
  ELSE re_parse(p, ic)

\* the characters of the text, case-folded under IGNORECASE
re_chars(t, ic) == [i \in 1..Len(t) |-> fold(ch(t, i), ic)] \o <<>>

set_matches(r, c) ==
  LET hit == c \in r[3] \/ (r[4] /\ IsWord(c)) \/ (r[5] /\ IsSpace(c))
  IN IF r[2] THEN ~hit ELSE hit

RECURSIVE ends(_, _, _, _)
RECURSIVE cat_ends(_, _, _, _, _)
RECURSIVE cat_over(_, _, _, _, _, _)
RECURSIVE alt_ends(_, _, _, _, _)
RECURSIVE rep_ends(_, _, _, _, _)
RECURSIVE rep_over(_, _, _, _, _, _, _)

\* The positions at which a match of r that starts at position i of the
\* characters u can end, in the order in which the backtracking matcher
\* tries them: the first is the match re reports.  A position is the index
\* of the next character.  ml = re.MULTILINE.
ends(r, u, i, ml) ==
  CASE r[1] = "chr" ->
         IF i <= Len(u) /\ u[i] = r[2] THEN <<i + 1>> ELSE <<>>
    [] r[1] = "cat" -> cat_ends(r[2], 1, u, i, ml)
    [] r[1] = "rep" -> rep_ends(r, 0, u, i, ml)
    [] r[1] = "set" ->
         IF i <= Len(u) /\ set_matches(r, u[i]) THEN <<i + 1>> ELSE <<>>
    [] r[1] = "any" ->
         IF i <= Len(u) /\ u[i] # "\n" THEN <<i + 1>> ELSE <<>>
    [] r[1] = "eol" ->
         IF \/ i = Len(u) + 1
            \/ i <= Len(u) /\ u[i] = "\n" /\ (ml \/ i = Len(u))
         THEN <<i>> ELSE <<>>
    [] r[1] = "wb" ->
         LET before == i > 1 /\ IsWord(u[i - 1])
             after  == i <= Len(u) /\ IsWord(u[i])
         IN IF before # after THEN <<i>> ELSE <<>>
    [] r[1] = "alt" -> alt_ends(r[2], 1, u, i, ml)

cat_ends(rs, k, u, i, ml) ==
  IF k > Len(rs) THEN <<i>>
  ELSE cat_over(ends(rs[k], u, i, ml), 1, rs, k, u, ml)

cat_over(es, j, rs, k, u, ml) ==
  IF j > Len(es) THEN <<>>
  ELSE cat_ends(rs, k + 1, u, es[j], ml) \o cat_over(es, j + 1, rs, k, u, ml)

alt_ends(rs, k, u, i, ml) ==
  IF k > Len(rs) THEN <<>>
  ELSE ends(rs[k], u, i, ml) \o alt_ends(rs, k + 1, u, i, ml)

\* greedy: one more repetition first, then stopping here
rep_ends(r, n, u, i, ml) ==
  (IF r[4] = -1 \/ n < r[4]
   THEN rep_over(ends(r[2], u, i, ml), 1, r, n, u, i, ml)
   ELSE <<>>)
  \o (IF n >= r[3] THEN <<i>> ELSE <<>>)

rep_over(es, j, r, n, u, i, ml) ==
  IF j > Len(es) THEN <<>>
  ELSE (IF es[j] > i THEN rep_ends(r, n + 1, u, es[j], ml) ELSE <<>>)
       \o rep_over(es, j + 1, r, n, u, i, ml)

\* the character every match of r starts with, "" when there is no such
first_chr(r) ==
  IF r[1] = "chr" THEN r[2]
  ELSE IF r[1] = "cat" /\ Len(r[2]) > 0 /\ r[2][1][1] = "chr" THEN r[2][1][2]
  ELSE ""

matches_at(r, u, i, ml, c) ==
  /\ c = "" \/ (i <= Len(u) /\ u[i] = c)
  /\ ends(r, u, i, ml) # <<>>

\* the leftmost position in lo..hi where r matches, 0 when there is none
leftmost(left, right) == IF left # 0 THEN left ELSE right
RECURSIVE first_match(_, _, _, _, _, _)
first_match(r, u, lo, hi, ml, c) ==
  IF lo > hi THEN 0
  ELSE IF lo = hi THEN (IF matches_at(r, u, lo, ml, c) THEN lo ELSE 0)
  ELSE leftmost(first_match(r, u, lo, (lo + hi) \div 2, ml, c),
                first_match(r, u, ((lo + hi) \div 2) + 1, hi, ml, c))

\* re.search(pattern, text, flags) is not None
search_chars(r, u, ml) == first_match(r, u, 1, Len(u) + 1, ml, first_chr(r)) # 0
re_search(p, t, ic, ml) == search_chars(re_compile(p, ic), re_chars(t, ic), ml)

\* len(re.findall(pattern, text, flags)): the non-overlapping matches,
\* scanning from the left; after an empty match the scan moves on by one
RECURSIVE count_from(_, _, _, _, _)
RECURSIVE count_match(_, _, _, _, _)
scan_from(j, e) == IF e > j THEN e ELSE j + 1
count_match(r, u, j, ml, c) ==
  IF j = 0 THEN 0
  ELSE 1 + count_from(r, u, scan_from(j, ends(r, u, j, ml)[1]), ml, c)
count_from(r, u, i, ml, c) ==
  count_match(r, u, first_match(r, u, i, Len(u) + 1, ml, c), ml, c)
findall_chars(r, u, ml) == count_from(r, u, 1, ml, first_chr(r))
re_findall_len(p, t, ic, ml) ==
  findall_chars(re_compile(p, ic), re_chars(t, ic), ml)

(***************************************************************************)
(* float: the IEEE-754 doubles of calculate_confidence.  Every value it    *)
(* computes is a multiple of 2^-56 below 2, kept as two limbs:             *)
(* [hi, lo] is (hi * 2^28 + lo) * 2^-56.  An operation computes the exact  *)
(* result and rounds it to the nearest double, ties to even.               *)
(***************************************************************************)
Limb == 2^28

float_0_0 == [hi |-> 0, lo |-> 0]
float_0_1 == [hi |-> 26843545, lo |-> 161061274]   \* 0x1.999999999999ap-4
float_0_2 == [hi |-> 53687091, lo |-> 53687092]    \* 0x1.999999999999ap-3
float_0_3 == [hi |-> 80530636, lo |-> 214748364]   \* 0x1.3333333333333p-2
float_1_0 == [hi |-> Limb, lo |-> 0]

\* the spacing of the doubles around hi * 2^28, in units of 2^-56
float_ulp(hi) ==
  IF hi >= 2^28 THEN 16 ELSE IF hi >= 2^27 THEN 8
  ELSE IF hi >= 2^26 THEN 4 ELSE IF hi >= 2^25 THEN 2 ELSE 1

float_round(hi, lo) ==
  LET q    == float_ulp(hi)
      r    == lo % q
      down == lo - r
      up   == 2 * r > q \/ (2 * r = q /\ (down \div q) % 2 = 1)
      lo2  == IF up THEN down + q ELSE down
  IN IF lo2 = Limb THEN [hi |-> hi + 1, lo |-> 0] ELSE [hi |-> hi, lo |-> lo2]

\* the exact sum of two values, and the double nearest to an exact value
exact_sum(a, b) ==
  [hi |-> a.hi + b.hi + ((a.lo + b.lo) \div Limb), lo |-> (a.lo + b.lo) % Limb]
float_nearest(x) == float_round(x.hi, x.lo)

float_add(a, b) == float_nearest(exact_sum(a, b))

RECURSIVE exact_times(_, _)
exact_times(n, a) ==
  IF n = 0 THEN [hi |-> 0, lo |-> 0] ELSE exact_sum(exact_times(n - 1, a), a)

\* n * a for an int n >= 0
float_mul_int(n, a) == float_nearest(exact_times(n, a))

float_lt(a, b) == a.hi < b.hi \/ (a.hi = b.hi /\ a.lo < b.lo)
\* min(a, b): the first of the two unless the second is smaller
float_min(a, b) == IF float_lt(b, a) THEN b ELSE a

(***************************************************************************)
(* The analyzer: the module-level CodeAnalyzer instance and its tables     *)
(***************************************************************************)
VARIABLES language_patterns, code_patterns, complexity_indicators

\* sum(f(items[k]) for k), as the accumulating loops of the detectors
RECURSIVE seq_sum(_, _)
seq_sum(xs, k) == IF k > Len(xs) THEN 0 ELSE xs[k] + seq_sum(xs, k + 1)

\* max(scores, key=scores.get): the first entry, in iteration order, whose
\* score no other entry exceeds
first_max(entries) ==
  LET best == CHOOSE k \in 1..Len(entries) :
                /\ \A j \in 1..Len(entries) : entries[j].score <= entries[k].score
                /\ \A j \in 1..(k - 1) : entries[j].score < entries[k].score
  IN entries[best]

\* the score detect_language gives one language
language_score(patterns, file_name_lower, code_content) ==
  seq_sum([k \in 1..Len(patterns) |->
             (IF re_search(patterns[k], file_name_lower, TRUE, FALSE) THEN 3 ELSE 0)
           + (IF re_search(patterns[k], code_content, TRUE, TRUE) THEN 1 ELSE 0)], 1)

language_scores(file_name_lower, code_content) ==
  [k \in 1..Len(language_patterns) |->
     [name  |-> language_patterns[k].name,
      score |-> language_score(language_patterns[k].patterns,
                               file_name_lower, code_content)]]

\* best_language if scores[best_language] > 0 else 'unknown'
best_language(scores) ==
  IF Len(scores) > 0 /\ first_max(scores).score > 0
  THEN first_max(scores).name
  ELSE "unknown"

detect_language(file_name, code_content) ==
  best_language(language_scores(str_lower(file_name), code_content))

\* a score that counts the patterns found instead of their matches
code_type_presence(patterns, code_content) ==
  seq_sum([k \in 1..Len(patterns) |->
             IF re_search(patterns[k], code_content, TRUE, TRUE) THEN 1 ELSE 0], 1)

\* the score detect_code_type gives one code type
code_type_score(patterns, code_content) ==
  seq_sum([k \in 1..Len(patterns) |->
             re_findall_len(patterns[k], code_content, TRUE, TRUE)], 1)

all_code_type_scores(code_content) ==
  [k \in 1..Len(code_patterns) |->
     [name  |-> code_patterns[k].name,
      score |-> code_type_score(code_patterns[k].patterns, code_content)]]

\* code_type_scores: only the types that scored, in table order
code_type_scores(code_content) ==
  SelectSeq(all_code_type_scores(code_content), LAMBDA e : e.score > 0)

\* max(code_type_scores, key=code_type_scores.get), 'general_code' when the
\* dict is empty
best_code_type(scores) ==
  IF Len(scores) > 0 THEN first_max(scores).name ELSE "general_code"

detect_code_type(code_content) == best_code_type(code_type_scores(code_content))

\* the inner loop leaving after the first pattern of the group
first_pattern_found(patterns, code_content) ==
  re_search(patterns[1], code_content, TRUE, TRUE)

\* whether some pattern of the group is found (the inner loop up to its break)
any_pattern_found(patterns, code_content) ==
  \E k \in 1..Len(patterns) : re_search(patterns[k], code_content, TRUE, TRUE)

names_of(groups) == [k \in 1..Len(groups) |-> groups[k].name]

detect_patterns(code_content) ==
  names_of(SelectSeq(code_patterns,
                     LAMBDA g : any_pattern_found(g.patterns, code_content)))

\* complexity_scores[level]
indicators_of(level) ==
  complexity_indicators[CHOOSE k \in 1..Len(complexity_indicators) :
                          complexity_indicators[k].name = level].patterns
complexity_score(level, code_content) ==
  seq_sum([k \in 1..Len(indicators_of(level)) |->
             re_findall_len(indicators_of(level)[k], code_content, TRUE, TRUE)], 1)

weighted_score(code_content) ==
    complexity_score("high", code_content) * 3
  + complexity_score("medium", code_content) * 2
  + complexity_score("low", code_content) * 1

is_comment_line(stripped) ==
  \/ str_startswith(stripped, "#")
  \/ str_startswith(stripped, "//")
  \/ str_startswith(stripped, "/*")
  \/ str_startswith(stripped, "*")

\* len(code_lines) of assess_complexity
loc(code_content) ==
  Len(SelectSeq(str_split_lines(code_content),
                LAMBDA line : str_strip(line) # ""
                              /\ ~is_comment_line(str_strip(line))))

\* the thresholds with >= in place of >
complexity_level_inclusive(ws, n) ==
  IF ws >= 10 \/ n >= 100 THEN "high"
  ELSE IF ws >= 5 \/ n >= 50 THEN "medium"
  ELSE "low"

complexity_level(ws, n) ==
  IF ws > 10 \/ n > 100 THEN "high"
  ELSE IF ws > 5 \/ n > 50 THEN "medium"
  ELSE "low"

assess_complexity(code_content) ==
  complexity_level(weighted_score(code_content), loc(code_content))

\* the score analyze_functionality gives one functionality
functionality_score(keywords, code_lower, file_lower) ==
  seq_sum([k \in 1..Len(keywords) |->
             re_findall_len(keyword_pattern(keywords[k]), code_lower, FALSE, FALSE)
           + (IF str_contains(file_lower, keywords[k]) THEN 3 ELSE 0)], 1)

functionality_scores(code_lower, file_lower) ==
  [k \in 1..Len(functionality_keywords) |->
     [name  |-> functionality_keywords[k].name,
      score |-> functionality_score(functionality_keywords[k].keywords,
                                    code_lower, file_lower)]]

\* best_functionality.replace('_', ' ').title() if its score is positive
best_functionality(scores) ==
  IF Len(scores) > 0 /\ first_max(scores).score > 0
  THEN str_title(str_replace(first_max(scores).name, "_", " "))
  ELSE "General Purpose Code"

analyze_functionality(code_content, file_name, language) ==
  best_functionality(functionality_scores(str_lower(code_content),
                                          str_lower(file_name)))

\* code_lines of calculate_confidence
non_blank_lines(code_content) ==
  Len(SelectSeq(str_split_lines(code_content), LAMBDA line : str_strip(line) # ""))

\* confidence += amount, when the condition of the step holds
add_if(cond, confidence, amount) ==
  IF cond THEN float_add(confidence, amount) ELSE confidence

\* the pattern bonus without its cap
pattern_bonus_uncapped(patterns) == float_mul_int(Len(patterns), float_0_1)

\* the pattern bonus: min(0.3, len(patterns) * 0.1)
pattern_bonus(patterns) ==
  float_min(float_0_3, float_mul_int(Len(patterns), float_0_1))

confidence_of(language, code_type, patterns, code_lines) ==
  float_min(float_1_0,
    add_if(code_lines > 20,
      add_if(code_lines > 5,
        add_if(Len(patterns) > 0,
          add_if(code_type # "general_code",
            add_if(language # "unknown", float_0_0, float_0_3),
            float_0_2),
          pattern_bonus(patterns)),
        float_0_1),
      float_0_1))

calculate_confidence(language, code_type, patterns, code_content) ==
  confidence_of(language, code_type, patterns, non_blank_lines(code_content))

\* patterns[:n]
seq_take(xs, n) == SubSeq(xs, 1, IF Len(xs) < n THEN Len(xs) ELSE n)

\* pattern_desc without the cut to the top three patterns
pattern_desc_all(patterns) ==
  IF Len(patterns) > 0
  THEN " with " \o str_join(", ", seq_take(patterns, 2))
       \o (IF Len(patterns) > 2
           THEN " and " \o str_join(", ", SubSeq(patterns, 3, Len(patterns)))
           ELSE "")
  ELSE ""

pattern_desc(patterns) ==
  IF Len(patterns) > 0
  THEN LET top_patterns == seq_take(patterns, 3)
       IN " with " \o str_join(", ", seq_take(top_patterns, 2))
          \o (IF Len(top_patterns) > 2 THEN " and " \o top_patterns[3] ELSE "")
  ELSE ""

change_desc(lines_added, lines_deleted) ==
  IF lines_added > 0 /\ lines_deleted > 0
  THEN "Modified code (+" \o int_str(lines_added) \o "/-"
       \o int_str(lines_deleted) \o " lines)"
  ELSE IF lines_added > 0
  THEN "Added " \o int_str(lines_added) \o " lines of code"
  ELSE IF lines_deleted > 0
  THEN "Removed " \o int_str(lines_deleted) \o " lines of code"
  ELSE "Code structure changes"

generate_summary(language, code_type, functionality, complexity, patterns, lines_added, lines_deleted) ==
  change_desc(lines_added, lines_deleted)
  \o " in " \o str_title(language) \o " for " \o str_lower(functionality)
  \o pattern_desc(patterns)
  \o ". Code complexity is " \o complexity \o "."

(***************************************************************************)
(* JSON values as request.get_json() returns them: a str, an int, None, a  *)
(* list or a dict.  A dict is a function from its keys to values.          *)
(***************************************************************************)
JStr(s)  == [t |-> "str", s |-> s]
JInt(n)  == [t |-> "int", n |-> n]
JNone    == [t |-> "none"]
JList(xs) == [t |-> "list", items |-> xs]
JDict(d) == [t |-> "dict", d |-> d]

\* bool(x)
truthy(x) ==
  CASE x.t = "str"  -> x.s # ""
    [] x.t = "int"  -> x.n # 0
    [] x.t = "none" -> FALSE
    [] x.t = "list" -> Len(x.items) > 0
    [] x.t = "dict" -> DOMAIN x.d # {}

\* d.get(key, default) of a dict d
dict_get(x, key, default) ==
  IF key \in DOMAIN x.d THEN x.d[key] ELSE default

Returned(v) == [raised |-> FALSE, value |-> v]
Raised(e)   == [raised |-> TRUE, exc |-> e]

\* a combined_code that takes in full_diff as well
combined_with_full_diff(added_code, deleted_code, full_diff) ==
  added_code.s \o "\n" \o deleted_code.s
  \o (IF full_diff.t = "str" THEN "\n" \o full_diff.s ELSE "")

\* combined_code = added_code + "\n" + deleted_code
combined_code_of(added_code, deleted_code, full_diff) ==
  added_code.s \o "\n" \o deleted_code.s

\* the dict analyze_code_diff returns
analysis_result(language, code_type, functionality, complexity, patterns, confidence, lines_added, lines_deleted) ==
  [language      |-> language,
   codeType      |-> code_type,
   functionality |-> functionality,
   complexity    |-> complexity,
   patterns      |-> patterns,
   confidence    |-> confidence,
   summary       |-> generate_summary(language, code_type, functionality,
                                      complexity, patterns,
                                      lines_added, lines_deleted)]

\* the steps that use the results of the detectors
analyze_detected(file_name, combined_code, language, code_type, patterns, complexity, lines_added, lines_deleted) ==
  analysis_result(language, code_type,
                  analyze_functionality(combined_code, file_name, language),
                  complexity, patterns,
                  calculate_confidence(language, code_type, patterns, combined_code),
                  lines_added, lines_deleted)

\* the detectors, each on combined_code
analyze_combined(file_name, combined_code, lines_added, lines_deleted) ==
  analyze_detected(file_name, combined_code,
                   detect_language(file_name, combined_code),
                   detect_code_type(combined_code),
                   detect_patterns(combined_code),
                   assess_complexity(combined_code),
                   lines_added, lines_deleted)

\* analyze_code_diff on the values the handlers pass it: a value of the
\* wrong type raises where the code first uses it as a str or a number
analyze_code_diff(file_name, added_code, deleted_code, full_diff, lines_added, lines_deleted) ==
  IF added_code.t # "str" \/ deleted_code.t # "str" THEN Raised("TypeError")
  ELSE IF file_name.t # "str" THEN Raised("AttributeError")
  ELSE IF lines_added.t # "int" \/ lines_deleted.t # "int" THEN Raised("TypeError")
  ELSE Returned(analyze_combined(file_name.s,
                                 combined_code_of(added_code, deleted_code, full_diff),
                                 lines_added.n, lines_deleted.n))

(***************************************************************************)
(* The Flask application: one request is in flight at a time.              *)
(*   pc           "idle", or the handler the request in flight is routed to*)
(*   request      the request in flight (or the last one): its path and    *)
(*                what request.get_json() returns for it                   *)
(*   engine_calls the arguments of every analyze_code_diff call the        *)
(*                handler made for that request                            *)
(*   response     the handler's (body, status), status 0 while in flight   *)
(***************************************************************************)
VARIABLES pc, request, engine_calls, response

analyzer == <<language_patterns, code_patterns, complexity_indicators>>
vars == <<language_patterns, code_patterns, complexity_indicators,
          pc, request, engine_calls, response>>

Request(path, json) == [path |-> path, json |-> json]
NoResponse == [status |-> 0]
\* jsonify(body), status
Response(body, status) == [status |-> status, json |-> body]

ErrorBody(message) == [error |-> message]
\* the body of the handlers' except Exception clauses
InternalError(e) == [error |-> "Internal server error", message |-> e]

CallArgs(file_name, added_code, deleted_code, full_diff, lines_added, lines_deleted) ==
  [file_name |-> file_name, added_code |-> added_code,
   deleted_code |-> deleted_code, full_diff |-> full_diff,
   lines_added |-> lines_added, lines_deleted |-> lines_deleted]

\* analyzer.analyze_code_diff(**args)
call_engine(args) ==
  analyze_code_diff(args.file_name, args.added_code, args.deleted_code,
                    args.full_diff, args.lines_added, args.lines_deleted)

\* the arguments both handlers read from one dict
args_of(data) ==
  CallArgs(dict_get(data, "fileName", JStr("")),
           dict_get(data, "addedCode", JStr("")),
           dict_get(data, "deletedCode", JStr("")),
           dict_get(data, "fullDiff", JStr("")),
           dict_get(data, "linesAdded", JInt(0)),
           dict_get(data, "linesDeleted", JInt(0)))

\* jsonify(result), or the except clause when the engine raised
engine_response(result) ==
  IF result.raised
  THEN Response(InternalError(result.exc), 500)
  ELSE Response(result.value, 200)

\* analyze_code from the validation of the fields on
analyze_fields(args) ==
  IF ~truthy(args.file_name)
  THEN [response |-> Response(ErrorBody("fileName is required"), 400),
        calls |-> <<>>]
  ELSE IF ~truthy(args.added_code) /\ ~truthy(args.deleted_code)
          /\ ~truthy(args.full_diff)
  THEN [response |-> Response(ErrorBody(
          "At least one of addedCode, deletedCode, or fullDiff is required"),
          400),
        calls |-> <<>>]
  ELSE [response |-> engine_response(call_engine(args)), calls |-> <<args>>]

\* what analyze_code returns for the body data: [response, calls]
analyze_code_result(data) ==
  IF ~truthy(data)
  THEN [response |-> Response(ErrorBody("No JSON data provided"), 400),
        calls |-> <<>>]
  ELSE IF data.t # "dict"
  THEN \* data.get raises AttributeError
       [response |-> Response(InternalError("AttributeError"), 500),
        calls |-> <<>>]
  ELSE analyze_fields(args_of(data))

\* the entry the loop appends for one file: the result with its fileName,
\* or the entry of the inner except clause
batch_entry(args, result) ==
  IF result.raised
  THEN [fileName |-> args.file_name, error |-> result.exc]
  ELSE [fileName |-> args.file_name] @@ result.value
analyze_file(args) == batch_entry(args, call_engine(args))

\* the for loop of analyze_batch from item k on: [aborted, exc, results, calls]
RECURSIVE batch_loop(_, _, _, _)
batch_loop(files, k, results, calls) ==
  IF k > Len(files)
  THEN [aborted |-> FALSE, exc |-> "", results |-> results, calls |-> calls]
  ELSE IF files[k].t # "dict"
  THEN \* file_data.get raises in the try block and again in its except
       \* clause, which leaves the loop
       [aborted |-> TRUE, exc |-> "AttributeError",
        results |-> results, calls |-> calls]
  ELSE batch_loop(files, k + 1,
                  Append(results, analyze_file(args_of(files[k]))),
                  Append(calls, args_of(files[k])))

\* 'files' in data, for a truthy data that is not an int
has_files_key(data) ==
  CASE data.t = "dict" -> "files" \in DOMAIN data.d
    [] data.t = "str"  -> str_contains(data.s, "files")
    [] data.t = "list" -> \E k \in 1..Len(data.items) : data.items[k] = JStr("files")

\* the response after the loop, or the outer except clause
batch_response(loop) ==
  [response |-> IF loop.aborted
                THEN Response(InternalError(loop.exc), 500)
                ELSE Response([results |-> loop.results], 200),
   calls |-> loop.calls]

\* analyze_batch from files = data['files'] on
analyze_files(files) ==
  IF files.t # "list"
  THEN [response |-> Response(ErrorBody("files must be an array"), 400),
        calls |-> <<>>]
  ELSE batch_response(batch_loop(files.items, 1, <<>>, <<>>))

\* what analyze_batch returns for the body data: [response, calls]
analyze_batch_result(data) ==
  IF ~truthy(data)
  THEN [response |-> Response(ErrorBody("files array is required"), 400),
        calls |-> <<>>]
  ELSE IF data.t = "int"
  THEN \* 'files' not in data raises TypeError
       [response |-> Response(InternalError("TypeError"), 500), calls |-> <<>>]
  ELSE IF ~has_files_key(data)
  THEN [response |-> Response(ErrorBody("files array is required"), 400),
        calls |-> <<>>]
  ELSE IF data.t # "dict"
  THEN \* data['files'] raises TypeError
       [response |-> Response(InternalError("TypeError"), 500), calls |-> <<>>]
  ELSE analyze_files(data.d["files"])

table_keys(table) == [k \in 1..Len(table) |-> table[k].name]

(***************************************************************************)
(* The requests clients send                                               *)
(***************************************************************************)
\* the most items a batch holds
MaxBatch == 3
\* the most lines a generated body repeats
MaxRepeat == 101

\* s repeated n times
Doubled(half, rest) == half \o half \o rest
RECURSIVE Rep(_, _)
Rep(s, n) ==
  IF n = 0 THEN "" ELSE Doubled(Rep(s, n \div 2), IF n % 2 = 1 THEN s ELSE "")

\* foo.<extension> for the extension pattern of every language
LanguageFileNames ==
  {"foo.py", "foo.java", "foo.js", "foo.ts", "foo.cpp", "foo.c", "foo.html",
   "foo.css", "foo.sql", "foo.sh", "foo.go", "foo.rs", "foo.php", "foo.rb",
   "foo.swift", "foo.kt"}
\* file names that end in no language's extension
PlainFileNames == {"data.xyz", "notes"}

\* bodies in which no language pattern is found
PlainBodies == {"x", "lorem ipsum"}
\* bodies with 1, 2, 3 and 4 code types, with counted matches, with comments
Snippets ==
  {"assert", "assert token", "assert token cache", "assert token cache hash",
   "SELECT a FROM t\nSELECT b FROM t\nSELECT c FROM t\n@app.route('/')",
   "@app.route('/')\nSELECT a FROM t",
   "SELECT a FROM t SELECT b FROM t SELECT c FROM t @app.route('/')",
   "def test_f(x):\n  return x",
   "# a\n// b\n/* c\n * d\nx"}
\* bodies of n lines around the thresholds of the line counts and scores
RepeatedBodies ==
  {Rep("x\n", n) : n \in {5, 6, 20, 21, 50, 51, 100, MaxRepeat}}
  \cup {Rep("def f\n", n) : n \in {5, 6, 10, 11}}
  \cup {"#\n" \o Rep("x\n", 100), "assert token cache\n" \o Rep("x\n", 21),
        "assert token cache hash\n" \o Rep("x\n", 5)}

Dict2(k1, v1, k2, v2) == JDict((k1 :> v1) @@ (k2 :> v2))
EmptyDict == JDict([k \in {} |-> JNone])
\* d with the entries of the function extra added
With(x, extra) == JDict(extra @@ x.d)

\* file name and added code only
NamedRequests ==
  {Dict2("fileName", JStr(f), "addedCode", JStr(a)) :
     f \in LanguageFileNames \cup PlainFileNames, a \in PlainBodies}
\* bodies with line counts
CountedRequests ==
  {JDict([fileName |-> JStr(f), addedCode |-> JStr(a),
          linesAdded |-> JInt(la), linesDeleted |-> JInt(ld)]) :
     f \in {"notes", "foo.py"}, a \in Snippets \cup {"x"},
     la \in {-1, 0, 10}, ld \in {0, 2}}
RepeatedRequests ==
  {Dict2("fileName", JStr(f), "addedCode", JStr(a)) :
     f \in {"notes", "foo.py"}, a \in RepeatedBodies}
\* added code, deleted code and full diff present, empty or missing
Optional(key, values) ==
  {[k \in {} |-> JNone]} \cup {key :> JStr(v) : v \in values}
DiffRequests ==
  {With(Dict2("fileName", JStr("foo.py"), "linesAdded", JInt(1)), a @@ d @@ fd) :
     a  \in Optional("addedCode", {"", "assert"}),
     d  \in Optional("deletedCode", {"", "token cache"}),
     fd \in Optional("fullDiff", {"", "SELECT a FROM t"})}
\* bodies that are not an object of strings and integers
MalformedRequests ==
  {JNone, EmptyDict, JStr("files"), JInt(5), JInt(0), JList(<<JStr("files")>>),
   JList(<<>>),
   Dict2("addedCode", JStr("x"), "linesAdded", JInt(1)),
   Dict2("fileName", JStr(""), "addedCode", JStr("x")),
   Dict2("fileName", JInt(5), "addedCode", JStr("x")),
   Dict2("fileName", JNone, "addedCode", JStr("x")),
   Dict2("fileName", JStr("foo.py"), "addedCode", JInt(5)),
   Dict2("fileName", JStr("foo.py"), "addedCode", JNone),
   Dict2("fileName", JStr("foo.py"), "deletedCode", JInt(5)),
   Dict2("fileName", JStr("foo.py"), "fullDiff", JInt(5)),
   With(Dict2("fileName", JStr("foo.py"), "addedCode", JStr("x")),
        "fullDiff" :> JInt(5)),
   With(Dict2("fileName", JStr("foo.py"), "addedCode", JStr("x")),
        "linesAdded" :> JStr("3")),
   With(Dict2("fileName", JStr("foo.py"), "addedCode", JStr("x")),
        "linesDeleted" :> JStr("3")),
   With(Dict2("fileName", JStr("foo.py"), "addedCode", JStr("x")),
        "linesAdded" :> JNone)}

SingleRequests ==
  NamedRequests \cup CountedRequests \cup RepeatedRequests \cup DiffRequests
  \cup MalformedRequests

\* the items of a batch: two objects that differ in fullDiff alone, an
\* object the engine raises on, and an item that is not an object
BatchItems ==
  {Dict2("fileName", JStr("foo.py"), "addedCode", JStr("assert token")),
   With(Dict2("fileName", JStr("foo.py"), "addedCode", JStr("assert token")),
        "fullDiff" :> JStr("SELECT a FROM t\ncache")),
   Dict2("fileName", JStr("foo.sql"), "addedCode", JInt(5)),
   JStr("foo.py")}

\* the sequences over S of length at most n
Extended(shorter, S) == shorter \cup {Append(q, x) : q \in shorter, x \in S}
RECURSIVE SeqsUpTo(_, _)
SeqsUpTo(S, n) == IF n = 0 THEN {<<>>} ELSE Extended(SeqsUpTo(S, n - 1), S)

BatchRequests ==
  {Dict2("files", JList(items), "note", JStr("n")) : items \in SeqsUpTo(BatchItems, MaxBatch)}
  \cup {JNone, EmptyDict, JInt(5), JStr("files"), JStr("x"),
        JList(<<JStr("files")>>), JList(<<JStr("x")>>),
        Dict2("files", JStr("foo.py"), "note", JStr("n")),
        Dict2("files", JNone, "note", JStr("n")),
        Dict2("fileName", JStr("foo.py"), "addedCode", JStr("x"))}

(***************************************************************************)
(* The state machine                                                       *)
(***************************************************************************)
\* analyzer = CodeAnalyzer(), and no request yet
Init ==
  /\ language_patterns = LANGUAGE_PATTERNS
  /\ code_patterns = CODE_PATTERNS
  /\ complexity_indicators = COMPLEXITY_INDICATORS
  /\ pc = "idle"
  /\ request = Request("", JNone)
  /\ engine_calls = <<>>
  /\ response = NoResponse

\* a client's POST to path reaches the application with the JSON body data
\* and is routed to handler
receive(path, handler, data) ==
  /\ pc = "idle"
  /\ pc' = handler
  /\ request' = Request(path, data)
  /\ engine_calls' = <<>>
  /\ response' = NoResponse
  /\ UNCHANGED analyzer

post_analyze_code ==
  \E data \in SingleRequests : receive("/analyze-code", "analyze_code", data)
post_analyze_batch ==
  \E data \in BatchRequests : receive("/analyze-batch", "analyze_batch", data)

\* the handler returns: its response, and the engine calls it made
respond(out) ==
  /\ response' = out.response
  /\ engine_calls' = out.calls

\* POST /analyze-code
analyze_code ==
  /\ pc = "analyze_code"
  /\ respond(analyze_code_result(request.json))
  /\ pc' = "idle"
  /\ UNCHANGED <<analyzer, request>>

\* POST /analyze-batch
analyze_batch ==
  /\ pc = "analyze_batch"
  /\ respond(analyze_batch_result(request.json))
  /\ pc' = "idle"
  /\ UNCHANGED <<analyzer, request>>

\* GET /languages
get_supported_languages ==
  /\ pc = "idle"
  /\ request' = Request("/languages", JNone)
  /\ engine_calls' = <<>>
  /\ response' = Response([languages |-> table_keys(language_patterns),
                           total |-> Len(language_patterns)], 200)
  /\ UNCHANGED <<analyzer, pc>>

\* GET /patterns
get_code_patterns ==
  /\ pc = "idle"
  /\ request' = Request("/patterns", JNone)
  /\ engine_calls' = <<>>
  /\ response' = Response([patterns |-> table_keys(code_patterns),
                           total |-> Len(code_patterns)], 200)
  /\ UNCHANGED <<analyzer, pc>>

Next ==
  \/ post_analyze_code
  \/ analyze_code
  \/ post_analyze_batch
  \/ analyze_batch
  \/ get_supported_languages
  \/ get_code_patterns

Spec == Init /\ [][Next]_vars

(***************************************************************************)
(* What a state shows of the requests answered so far                      *)
(***************************************************************************)
\* the request to path has been answered
answered(path) == pc = "idle" /\ request.path = path /\ response.status # 0

\* the analyses the last response carries, each with the arguments of its
\* engine call: the result of POST /analyze-code, or the entries of POST
\* /analyze-batch that are not error entries
single_analyses ==
  IF answered("/analyze-code") /\ response.status = 200
  THEN {[args |-> engine_calls[1], result |-> response.json]}
  ELSE {}
batch_analyses ==
  IF answered("/analyze-batch") /\ response.status = 200
  THEN {[args |-> engine_calls[i], result |-> response.json.results[i]] :
          i \in {k \in 1..Len(response.json.results) :
                   "error" \notin DOMAIN response.json.results[k]}}
  ELSE {}
Analyses == single_analyses \cup batch_analyses

\* the text the detectors of an analysis ran on
text_of(a) == a.args.added_code.s \o "\n" \o a.args.deleted_code.s

\* the items of the files list of a batch request
batch_of_list ==
  /\ answered("/analyze-batch")
  /\ request.json.t = "dict"
  /\ "files" \in DOMAIN request.json.d
  /\ request.json.d["files"].t = "list"
items_sent == request.json.d["files"].items

(***************************************************************************)
(* C1: batch isolation                                                     *)
(***************************************************************************)
\* entry e answers item: it carries the item's fileName and either the
\* facets of an analysis or an error
entry_answers(e, item) ==
  /\ "fileName" \in DOMAIN e
  /\ "error" \in DOMAIN e \/ "language" \in DOMAIN e
  /\ item.t = "dict" => e.fileName = dict_get(item, "fileName", JStr(""))

\* C1: every batch request whose files field is a list of n items, whatever
\* the items are, is answered with status 200 and a results list of exactly n
\* entries in input order, each the analysis or the error of its item.
C1_BatchIsolation ==
  batch_of_list =>
    /\ response.status = 200
    /\ Len(response.json.results) = Len(items_sent)
    /\ \A i \in 1..Len(items_sent) :
         entry_answers(response.json.results[i], items_sent[i])

\* a batch with an item that is not an object is answered with status 500
C1_NonObjectItemAborts ==
  /\ batch_of_list
  /\ \E i \in 1..Len(items_sent) : items_sent[i].t # "dict"
  /\ \E i \in 1..Len(items_sent) : items_sent[i].t = "dict"
  /\ response.status = 500

(***************************************************************************)
(* C2: malformed single requests                                           *)
(***************************************************************************)
field_has_type(d, key, type) == key \notin DOMAIN d \/ d[key].t = type
non_empty_str(d, key) == key \in DOMAIN d /\ d[key].t = "str" /\ d[key].s # ""

\* an object with a non-empty string fileName, string code fields of which
\* one is non-empty, and integer line counts
well_formed(data) ==
  /\ data.t = "dict"
  /\ non_empty_str(data.d, "fileName")
  /\ field_has_type(data.d, "addedCode", "str")
  /\ field_has_type(data.d, "deletedCode", "str")
  /\ field_has_type(data.d, "fullDiff", "str")
  /\ field_has_type(data.d, "linesAdded", "int")
  /\ field_has_type(data.d, "linesDeleted", "int")
  /\ \/ non_empty_str(data.d, "addedCode")
     \/ non_empty_str(data.d, "deletedCode")
     \/ non_empty_str(data.d, "fullDiff")

\* C2: every malformed request to the single-item operation is answered with
\* a 4xx status and no call of analyze_code_diff.
C2_MalformedRejected ==
  (answered("/analyze-code") /\ ~well_formed(request.json)) =>
    (response.status \in 400..499 /\ engine_calls = <<>>)

\* a request with a non-string addedCode reaches the engine and is answered
\* with status 500
C2_MalformedReachesEngine ==
  /\ answered("/analyze-code")
  /\ request.json.t = "dict"
  /\ ~field_has_type(request.json.d, "addedCode", "str")
  /\ engine_calls # <<>>
  /\ response.status = 500

(***************************************************************************)
(* C3, C4: language detection by file name                                 *)
(***************************************************************************)
\* the patterns of a language that are anchored at the end: its extensions
is_extension_pattern(p) == ch(p, Len(p)) = "$"
ends_in_extension_of(k, file_name) ==
  \E j \in 1..Len(language_patterns[k].patterns) :
    /\ is_extension_pattern(language_patterns[k].patterns[j])
    /\ re_search(language_patterns[k].patterns[j], str_lower(file_name),
                 TRUE, FALSE)
has_known_extension(file_name) ==
  \E k \in 1..Len(language_patterns) : ends_in_extension_of(k, file_name)
\* some pattern of some language is found in the text
has_language_signature(code_content) ==
  \E k \in 1..Len(language_patterns) :
    \E j \in 1..Len(language_patterns[k].patterns) :
      re_search(language_patterns[k].patterns[j], code_content, TRUE, TRUE)

\* C3: when the file name ends in no known language extension and the
\* combined text matches no language pattern, the language is "unknown".
C3_LanguageFallback ==
  \A a \in Analyses :
    (~has_known_extension(a.args.file_name.s) /\ ~has_language_signature(text_of(a)))
      => a.result.language = "unknown"

\* a file name with an unknown extension and a text without language
\* patterns is given a language
C3_UnknownExtensionGetsLanguage ==
  \E a \in single_analyses :
    /\ a.args.file_name.s = "data.xyz"
    /\ a.args.added_code.s = "lorem ipsum"
    /\ a.result.language = "css"

\* C4: for every language L, a file name that ends in L's extension, with a
\* text that matches no language pattern, yields language L.
C4_ExtensionPriority ==
  \A a \in Analyses :
    \A k \in 1..Len(language_patterns) :
      (ends_in_extension_of(k, a.args.file_name.s)
         /\ ~has_language_signature(text_of(a)))
        => a.result.language = language_patterns[k].name

\* foo.sql with a text without language patterns is given the language css
C4_SqlFileGetsCss ==
  \E a \in single_analyses :
    /\ a.args.file_name.s = "foo.sql"
    /\ ~has_language_signature(text_of(a))
    /\ a.result.language = "css"

(***************************************************************************)
(* C5: the summary sentence                                                *)
(***************************************************************************)
change_clause(lines_added, lines_deleted) ==
  CASE lines_added > 0 /\ lines_deleted > 0 ->
         "Modified code (+" \o int_str(lines_added) \o "/-"
         \o int_str(lines_deleted) \o " lines)"
    [] lines_added > 0 /\ lines_deleted <= 0 ->
         "Added " \o int_str(lines_added) \o " lines of code"
    [] lines_added <= 0 /\ lines_deleted > 0 ->
         "Removed " \o int_str(lines_deleted) \o " lines of code"
    [] OTHER -> "Code structure changes"

\* the pattern clause after lead: the first two names joined by ", ", then
\* " and " and the third
pattern_clause(patterns, lead) ==
  IF Len(patterns) = 0 THEN ""
  ELSE lead \o " with " \o patterns[1]
       \o (IF Len(patterns) >= 2 THEN ", " \o patterns[2] ELSE "")
       \o (IF Len(patterns) >= 3 THEN " and " \o patterns[3] ELSE "")

summary_sentence(a, lead) ==
  change_clause(a.args.lines_added.n, a.args.lines_deleted.n)
  \o " in " \o str_title(a.result.language)
  \o " for " \o str_lower(a.result.functionality)
  \o pattern_clause(a.result.patterns, lead)
  \o ". Code complexity is " \o a.result.complexity \o "."

\* C5: the summary is the change-size clause, " in <Language> for
\* <functionality>", then, when patterns is non-empty, " with <first two
\* names joined by ', '>" and " and <third name>" when there is a third (no
\* comma before "with"), then ". Code complexity is <tier>."
C5_SummaryFormat ==
  \A a \in Analyses : a.result.summary = summary_sentence(a, "")

\* the summary with the pattern clause introduced by ", with"
C5_SummaryCommaBeforeWith ==
  \A a \in Analyses : a.result.summary = summary_sentence(a, ",")

\* a summary of a modification with more than three patterns
C5_ModifiedWithFourPatterns ==
  \E a \in Analyses :
    /\ Len(a.result.patterns) > 3
    /\ a.args.lines_added.n > 0
    /\ a.args.lines_deleted.n > 0
    /\ a.result.summary = summary_sentence(a, "")

(***************************************************************************)
(* C6: the confidence score                                                *)
(***************************************************************************)
\* the signals that hold, in tenths
signal_tenths(language, code_type, n_patterns, code_lines) ==
    (IF language # "unknown" THEN 3 ELSE 0)
  + (IF code_type # "general_code" THEN 2 ELSE 0)
  + (IF n_patterns > 3 THEN 3 ELSE n_patterns)
  + (IF code_lines > 5 THEN 1 ELSE 0)
  + (IF code_lines > 20 THEN 1 ELSE 0)
tenths_of(a) ==
  signal_tenths(a.result.language, a.result.codeType, Len(a.result.patterns),
                non_blank_lines(text_of(a)))

\* c is within 2^-52 of e
float_near(c, e) ==
  /\ c.hi - e.hi \in {-1, 0, 1}
  /\ ((c.hi - e.hi) * Limb) + (c.lo - e.lo) \in -16..16

confidence_is(c, tenths) ==
  /\ ~float_lt(c, float_0_0)
  /\ ~float_lt(float_1_0, c)
  /\ float_near(c, exact_times(IF tenths > 10 THEN 10 ELSE tenths, float_0_1))
  /\ tenths = 0 => c = float_0_0
  /\ tenths >= 10 => c = float_1_0

\* C6: confidence is min(1.0, s) for the sum s of the signals that hold
\* (0.30 language, 0.20 code type, min(0.30, 0.10 per pattern), 0.10 for more
\* than 5 non-blank lines, 0.10 more for more than 20), to the precision of
\* the doubles it is computed in; it lies in [0, 1], is exactly 0.0 when no
\* signal holds and exactly 1.0 when all hold at their maximum.
C6_Confidence ==
  \A a \in Analyses : confidence_is(a.result.confidence, tenths_of(a))

\* an analysis in which every signal holds at its maximum
C6_AllSignals ==
  \E a \in Analyses : tenths_of(a) = 10 /\ a.result.confidence = float_1_0

(***************************************************************************)
(* C7: the code type by occurrence counts                                  *)
(***************************************************************************)
\* the number of matches of the patterns of code type k in the text
occurrences(k, code_content) ==
  seq_sum([j \in 1..Len(code_patterns[k].patterns) |->
             re_findall_len(code_patterns[k].patterns[j], code_content,
                            TRUE, TRUE)], 1)
occurrence_totals(code_content) ==
  [k \in 1..Len(code_patterns) |-> occurrences(k, code_content)] \o <<>>

\* code_type is the first code type of the table with the highest total,
\* and general_code when every total is 0
decided_by(totals, code_type) ==
  IF \A k \in 1..Len(totals) : totals[k] = 0
  THEN code_type = "general_code"
  ELSE \E k \in 1..Len(totals) :
         /\ code_type = code_patterns[k].name
         /\ \A j \in 1..Len(totals) : totals[j] <= totals[k]
         /\ \A j \in 1..(k - 1) : totals[j] < totals[k]

\* C7: the code type is the category with the highest total number of
\* pattern matches in the combined text, the first in table order on a tie,
\* and "general_code" exactly when every total is 0.
C7_CodeTypeByCount ==
  \A a \in Analyses : decided_by(occurrence_totals(text_of(a)), a.result.codeType)

\* three database_query matches against one api_endpoint match
three_to_one(totals) == totals[1] = 1 /\ totals[2] = 3
C7_ThreeQueriesOneRoute ==
  \E a \in Analyses :
    /\ three_to_one(occurrence_totals(text_of(a)))
    /\ a.result.codeType = "database_query"

(***************************************************************************)
(* C8: the complexity tier                                                 *)
(***************************************************************************)
tier_of(ws, code_lines) ==
  CASE ws > 10 \/ code_lines > 100 -> "high"
    [] ~(ws > 10 \/ code_lines > 100) /\ (ws > 5 \/ code_lines > 50) -> "medium"
    [] OTHER -> "low"
weighted_total(code_content) ==
    (3 * complexity_score("high", code_content))
  + (2 * complexity_score("medium", code_content))
  + complexity_score("low", code_content)

\* C8: complexity is "high" iff weighted_score > 10 or code_lines > 100,
\* otherwise "medium" iff weighted_score > 5 or code_lines > 50, otherwise
\* "low", for weighted_score = 3*high + 2*medium + low and code_lines the
\* lines that are neither blank nor start with a comment marker.
C8_ComplexityTier ==
  \A a \in Analyses :
    a.result.complexity = tier_of(weighted_total(text_of(a)), loc(text_of(a)))

\* more than 100 code lines without an indicator match
C8_LinesAloneHigh ==
  \E a \in Analyses :
    /\ weighted_total(text_of(a)) = 0
    /\ loc(text_of(a)) > 100
    /\ a.result.complexity = "high"

(***************************************************************************)
(* C9: purity                                                              *)
(***************************************************************************)
same_five_inputs(x, y) ==
  /\ x.file_name = y.file_name
  /\ x.added_code = y.added_code
  /\ x.deleted_code = y.deleted_code
  /\ x.lines_added = y.lines_added
  /\ x.lines_deleted = y.lines_deleted

\* C9: the rule tables are never changed, and two calls of one batch that
\* agree on fileName, addedCode, deletedCode, linesAdded and linesDeleted
\* have the same result, whatever their fullDiff and the calls in between.
C9_PureOfFiveInputs ==
  /\ language_patterns = LANGUAGE_PATTERNS
  /\ code_patterns = CODE_PATTERNS
  /\ complexity_indicators = COMPLEXITY_INDICATORS
  /\ (answered("/analyze-batch") /\ response.status = 200) =>
       \A i, j \in 1..Len(engine_calls) :
         same_five_inputs(engine_calls[i], engine_calls[j])
           => response.json.results[i] = response.json.results[j]

\* two calls of one batch that differ in fullDiff alone, with another call
\* between them
C9_FullDiffAlone ==
  /\ answered("/analyze-batch")
  /\ response.status = 200
  /\ Len(engine_calls) = 3
  /\ same_five_inputs(engine_calls[1], engine_calls[3])
  /\ engine_calls[1].full_diff # engine_calls[3].full_diff
  /\ ~same_five_inputs(engine_calls[1], engine_calls[2])
  /\ response.json.results[1] = response.json.results[3]

(***************************************************************************)
(* C10: codeType and patterns agree                                        *)
(***************************************************************************)
is_member(x, xs) == \E k \in 1..Len(xs) : xs[k] = x
position_in(table, name) == CHOOSE k \in 1..Len(table) : table[k].name = name
\* the names of xs are names of table, in the order of table, none twice
in_table_order(xs, table) ==
  /\ \A k \in 1..Len(xs) : \E p \in 1..Len(table) : table[p].name = xs[k]
  /\ \A k \in 1..(Len(xs) - 1) :
       position_in(table, xs[k]) < position_in(table, xs[k + 1])

facets_agree(code_type, patterns) ==
  /\ Len(patterns) = 0 <=> code_type = "general_code"
  /\ code_type # "general_code" => is_member(code_type, patterns)
  /\ in_table_order(patterns, code_patterns)

\* C10: patterns is empty iff codeType is "general_code", a codeType other
\* than "general_code" is an element of patterns, and patterns lists keys of
\* the code-type table in table order without duplicates.
C10_FacetsAgree ==
  \A a \in Analyses : facets_agree(a.result.codeType, a.result.patterns)

\* a code type that is not the first of several patterns
C10_TypeAmongSeveral ==
  \E a \in Analyses :
    /\ Len(a.result.patterns) >= 2
    /\ a.result.codeType # a.result.patterns[1]
    /\ is_member(a.result.codeType, a.result.patterns)
====
